---- MODULE Spec2Model ----
(***************************************************************************)
(* Event hydration and state reconciliation of the pool cache in           *)
(* src/server.js: the registry `pools`, the orphan buffer `pendingRaised`,  *)
(* the scan cursor `lastScannedLedger`, the single-flight gate              *)
(* `hydratingPromise`, and the passes of hydrateFromEvents with their       *)
(* suspension points (await getLatestLedger, await getEvents).              *)
(*                                                                         *)
(* Amounts (goal, raised) are kept by the code as decimal strings of        *)
(* BigInt values; the model keeps the integer they denote.  Registry keys   *)
(* are String(pid); the model keeps pid.  A pool object also records        *)
(* whether it carries a property whose value is a BigInt, which             *)
(* JSON.stringify cannot serialise (server.js:126, server.js:270).          *)
(***************************************************************************)
EXTENDS Integers, Sequences, FiniteSets, TLC

VARIABLES
    pools,              \* Map key -> pool object            (server.js:35)
    lastScannedLedger,  \* scan cursor                       (server.js:36)
    pendingRaised,      \* Map key -> buffered delta         (server.js:39)
    hydratingPromise,   \* 0 = null, else the id of a pass   (server.js:42)
    passes,             \* the async bodies started at server.js:185
    callers,            \* request handlers awaiting hydrateFromEvents
    snapshot,           \* contents of STATE_FILE
    resyncPending,      \* history: a resync call joined a running pass
    orphanSum,          \* history: deltas applied while the id had no pool
    ctrSum,             \* history: all contribution deltas applied per id
    lastFetch,          \* history: the most recent getEvents call and its outcome
    lastCreated,        \* history: id created by the last step from an event
                        \* without raised value, else 0
    applied,            \* history: number of events (or whole passes) applied
                        \* one by one
    eventLog            \* the events the contract has emitted so far, as the
                        \* remote source holds them (in ledger order)

vars == <<pools, lastScannedLedger, pendingRaised, hydratingPromise, passes,
          callers, snapshot, resyncPending, lastFetch, orphanSum, ctrSum,
          lastCreated, applied, eventLog>>

-----------------------------------------------------------------------------
(* Bounds *)

MaxPoolId == 2
MaxPasses == 2
MaxCallers == 2
MaxPages == 2
MaxPageLen == 1
MaxApplied == 3
MaxLog == 3

(* Program constants *)

DEFAULT_WINDOW == 150000

PoolIds == 1..MaxPoolId
PassIds == 1..MaxPasses
CallerIds == 1..MaxCallers

\* `undefined`: the argument of hydrateFromEvents when none is given, and
\* `pool.id ?? pool.pool_id ?? pool.poolId` of a record that carries none of
\* them (server.js:504); as a registry key it stands for the string "undefined"
Absent == -1

\* the empty string
EmptyString == -2

\* NaN, and the string "NaN" as a registry key
NaN == -3

\* null, and the string "null" as a registry key
Null == -4

Max(a, b) == IF a >= b THEN a ELSE b

-----------------------------------------------------------------------------
(* Inputs: decoded events, pages, remote failures *)

\* Ledger positions carried by events; 0 is an event without ledger field
Ledgers == {0, 50, 200500}

\* Tip sequences returned by getLatestLedger
Tips == {500, 200000}

\* [min, max] pairs reported in "within the ledger range: min - max"
Ranges == {<<100, 500>>, <<100, 200000>>}

\* null, the result of scvToNativeSafe on a void payload or on one that fails
\* to decode (server.js:52-57).  `has` names the properties a decoded object
\* carries, `big` those among them whose value is a BigInt (scValToNative
\* yields BigInt for 64-bit and wider integers, Number for 32-bit ones)
NoNative == [has |-> {}, goal |-> 0, target |-> 0, raised |-> 0, deadline |-> 0,
             finalized |-> FALSE, amount |-> 0, big |-> {}]

\* Decoded payloads (scvToNativeSafe result): the fields present and their values
Natives ==
    { NoNative,
      [NoNative EXCEPT !.has = {"amount"}, !.amount = 2],
      [NoNative EXCEPT !.has = {"amount"}, !.amount = -1],
      [NoNative EXCEPT !.has = {"goal", "deadline"}, !.goal = 3, !.deadline = 9],
      [NoNative EXCEPT !.has = {"raised"}, !.raised = 5],
      [NoNative EXCEPT !.has = {"finalized"}, !.finalized = TRUE] }

\* Normalised first topic: pc = creation, ctr = contribution, fn = finalize,
\* zz = a tag none of the patterns match
Tags == {"pc", "ctr", "fn", "zz"}

\* pid = 0: extractPoolId returned null
Events == [tag : Tags, pid : 0..MaxPoolId, native : Natives, ledger : Ledgers]

Ev(tag, pid, native, ledger) ==
    [tag |-> tag, pid |-> pid, native |-> native, ledger |-> ledger]

\* Events the remote source serves in the paging specification: a creation
\* with a void payload, a contribution, and a creation whose struct names the
\* goal `target` (an i128, decoded to a BigInt)
SourceEvents ==
    { Ev("pc", 1, NoNative, 50),
      Ev("ctr", 1, [NoNative EXCEPT !.has = {"amount"}, !.amount = 2], 200500),
      Ev("pc", 1, [NoNative EXCEPT !.has = {"target"}, !.target = 3,
                                   !.big = {"target"}], 50) }

\* the pool ids those events are about
SourceIds == { e.pid : e \in SourceEvents } \ {0}

SeqsUpTo(S, n) == UNION { [1..k -> S] : k \in 0..n }

Pages == SeqsUpTo(SourceEvents, MaxPageLen)

\* Failure messages of getEvents
Errors ==
    { [kind |-> "positive", min |-> 0, max |-> 0],
      [kind |-> "other", min |-> 0, max |-> 0] }
    \cup { [kind |-> "range", min |-> r[1], max |-> r[2]] : r \in Ranges }

-----------------------------------------------------------------------------
(* Event decoding helpers *)

Has(native, k) == k \in native.has

\* extractAmount on an object payload: first present of amount, ..., raised
extractAmount(native) ==
    IF Has(native, "amount") THEN native.amount
    ELSE IF Has(native, "raised") THEN native.raised
    ELSE 0

IsCreation(tag) == tag = "pc"
IsContribution(tag) == tag = "ctr"
IsFinalize(tag) == tag = "fn"

\* `big`: the object carries an own property whose value is a BigInt
ZeroPool(pid) ==
    [id |-> pid, goal |-> 0, raised |-> 0, deadline |-> 0, finalized |-> FALSE,
     big |-> FALSE]

PoolSet(m, k, v) == [x \in (DOMAIN m) \cup {k} |-> IF x = k THEN v ELSE m[x]]
MapDeleteForgotten(m, k) == m
MapDelete(m, k) == [x \in (DOMAIN m) \ {k} |-> m[x]]

-----------------------------------------------------------------------------
(* State Reconciler: the body of the event loop, server.js:238-311 *)

\* The cache part of the state an event is applied to; `threw`: an exception
\* left the for loop (it is caught at server.js:320)
Cache(ps, pend, cursor, processed) ==
    [pools |-> ps, pendingRaised |-> pend, lastScannedLedger |-> cursor,
     processed |-> processed, threw |-> FALSE]

\* server.js:264  obj.raised = BigInt(obj.raised) + buff
OrphanMergeDropped(raised, buff) == raised
OrphanMerge(raised, buff) == raised + buff

\* server.js:253-258  ...native spread into obj; id, goal, raised, deadline and
\* finalized are then replaced by a Number, String or Boolean: does any other
\* property keep a BigInt value
Normalised == {"id", "goal", "raised", "deadline", "finalized"}
SpreadKeepsBigInt(native) == native.big \ Normalised # {}

\* server.js:126,270  JSON.stringify throws a TypeError on a BigInt value
Serializable(p) == ~p.big

\* server.js:251-271  creation branch: the object is stored (server.js:269) and
\* then logged with JSON.stringify (server.js:270)
ApplyCreationKeepsFinalized(st, e) ==
    LET n == e.native
        obj == [id |-> e.pid,
                goal |-> IF Has(n, "goal") THEN n.goal
                         ELSE IF Has(n, "target") THEN n.target ELSE 0,
                raised |-> IF Has(n, "raised") THEN n.raised ELSE 0,
                deadline |-> IF Has(n, "deadline") THEN n.deadline ELSE 0,
                finalized |-> \/ Has(n, "finalized") /\ n.finalized
                             \/ /\ e.pid \in DOMAIN st.pools
                                /\ st.pools[e.pid].finalized,
                big |-> SpreadKeepsBigInt(n)]
        merge == e.pid \in DOMAIN st.pendingRaised
                 /\ st.pendingRaised[e.pid] # 0
        obj2 == IF merge
                THEN [obj EXCEPT !.raised =
                          OrphanMerge(obj.raised, st.pendingRaised[e.pid])]
                ELSE obj
    IN [st EXCEPT !.pools = PoolSet(st.pools, e.pid, obj2),
                  !.pendingRaised = IF merge
                                    THEN MapDelete(st.pendingRaised, e.pid)
                                    ELSE st.pendingRaised,
                  !.threw = ~Serializable(obj2)]
ApplyCreation(st, e) ==
    LET n == e.native
        obj == [id |-> e.pid,
                goal |-> IF Has(n, "goal") THEN n.goal
                         ELSE IF Has(n, "target") THEN n.target ELSE 0,
                raised |-> IF Has(n, "raised") THEN n.raised ELSE 0,
                deadline |-> IF Has(n, "deadline") THEN n.deadline ELSE 0,
                finalized |-> Has(n, "finalized") /\ n.finalized,
                big |-> SpreadKeepsBigInt(n)]
        merge == e.pid \in DOMAIN st.pendingRaised
                 /\ st.pendingRaised[e.pid] # 0
        obj2 == IF merge
                THEN [obj EXCEPT !.raised =
                          OrphanMerge(obj.raised, st.pendingRaised[e.pid])]
                ELSE obj
    IN [st EXCEPT !.pools = PoolSet(st.pools, e.pid, obj2),
                  !.pendingRaised = IF merge
                                    THEN MapDelete(st.pendingRaised, e.pid)
                                    ELSE st.pendingRaised,
                  !.threw = ~Serializable(obj2)]

\* server.js:282-283  cur = pendingRaised.get(key) ?? 0n; set(key, cur + delta)
OrphanAccumulateReplaces(pend, pid, delta) == PoolSet(pend, pid, delta)
OrphanAccumulate(pend, pid, delta) ==
    PoolSet(pend, pid, (IF pid \in DOMAIN pend THEN pend[pid] ELSE 0) + delta)

\* server.js:273-286  contribution branch
ApplyContributionOncePerLedger(st, e) ==
    LET delta == extractAmount(e.native)
    IN IF e.ledger <= st.lastScannedLedger THEN st
       ELSE IF e.pid \in DOMAIN st.pools
       THEN [st EXCEPT !.pools[e.pid].raised = @ + delta]
       ELSE [st EXCEPT !.pendingRaised =
                           OrphanAccumulate(st.pendingRaised, e.pid, delta)]
ApplyContribution(st, e) ==
    LET delta == extractAmount(e.native)
    IN IF e.pid \in DOMAIN st.pools
       THEN [st EXCEPT !.pools[e.pid].raised = @ + delta]
       ELSE [st EXCEPT !.pendingRaised =
                           OrphanAccumulate(st.pendingRaised, e.pid, delta)]

\* server.js:287-290  finalize branch
ApplyFinalizeUpserts(st, e) ==
    LET p == IF e.pid \in DOMAIN st.pools THEN st.pools[e.pid] ELSE ZeroPool(e.pid)
    IN [st EXCEPT !.pools = PoolSet(st.pools, e.pid, [p EXCEPT !.finalized = TRUE])]
ApplyFinalize(st, e) ==
    IF e.pid \in DOMAIN st.pools
    THEN [st EXCEPT !.pools[e.pid].finalized = TRUE]
    ELSE st

\* server.js:291-303  fallback branch for an unrecognised tag
ApplyFallbackFromZero(st, e) ==
    LET n == e.native
        p == ZeroPool(e.pid)
        q == [p EXCEPT !.goal = IF Has(n, "goal") THEN n.goal ELSE @,
                       !.raised = IF Has(n, "raised") THEN n.raised ELSE @,
                       !.deadline = IF Has(n, "deadline") THEN n.deadline ELSE @,
                       !.finalized = IF Has(n, "finalized") THEN n.finalized ELSE @]
    IN [st EXCEPT !.pools = PoolSet(st.pools, e.pid, q)]
ApplyFallback(st, e) ==
    LET n == e.native
        p == IF e.pid \in DOMAIN st.pools THEN st.pools[e.pid] ELSE ZeroPool(e.pid)
        q == [p EXCEPT !.goal = IF Has(n, "goal") THEN n.goal ELSE @,
                       !.raised = IF Has(n, "raised") THEN n.raised ELSE @,
                       !.deadline = IF Has(n, "deadline") THEN n.deadline ELSE @,
                       !.finalized = IF Has(n, "finalized") THEN n.finalized ELSE @]
    IN [st EXCEPT !.pools = PoolSet(st.pools, e.pid, q)]

\* server.js:306-309  cursor advance
AdvanceCursor(cursor, ledger) == Max(cursor, ledger)

\* server.js:238-311  one iteration of `for (const e of ev.events)`
\* (not reached once an exception has left the loop)
ApplyEventNoSkip(st, e) ==
    IF st.threw THEN st
    ELSE LET d == IF IsCreation(e.tag) THEN ApplyCreation(st, e)
                  ELSE IF IsContribution(e.tag) THEN ApplyContribution(st, e)
                  ELSE IF IsFinalize(e.tag) THEN ApplyFinalize(st, e)
                  ELSE ApplyFallback(st, e)
         IN [d EXCEPT !.lastScannedLedger = AdvanceCursor(@, e.ledger),
                      !.processed = @ + 1]
ApplyEvent(st, e) ==
    IF st.threw THEN st
    ELSE IF e.pid = 0 THEN st   \* server.js:245  continue
    ELSE LET d == IF IsCreation(e.tag) THEN ApplyCreation(st, e)
                  ELSE IF IsContribution(e.tag) THEN ApplyContribution(st, e)
                  ELSE IF IsFinalize(e.tag) THEN ApplyFinalize(st, e)
                  ELSE ApplyFallback(st, e)
         IN IF d.threw THEN d
            ELSE [d EXCEPT !.lastScannedLedger = AdvanceCursor(@, e.ledger),
                           !.processed = @ + 1]

RECURSIVE ApplyPage(_, _)
\* server.js:238  the whole for loop over one page
ApplyPage(st, page) ==
    IF page = <<>> THEN st
    ELSE ApplyPage(ApplyEvent(st, Head(page)), Tail(page))

\* server.js:127  JSON.stringify writes a NaN as null
JsonOf(p) == [p EXCEPT !.id = IF @ = NaN THEN Null ELSE @]

\* server.js:119-131  saveState: the file after the call, `file` before it.
\* The payload holds the list of pool objects (the JSON text of each); a throw
\* of JSON.stringify is caught at server.js:127 and the file is left as it was
saveState(ps, cursor, file) ==
    IF \A k \in DOMAIN ps : Serializable(ps[k])
    THEN [lastScannedLedger |-> cursor,
          pools |-> { JsonOf(ps[k]) : k \in DOMAIN ps }]
    ELSE file

\* server.js:133-145  loadState in a process that has just started (empty
\* pools, lastScannedLedger = 0): the map is rebuilt keyed by String(p.id)
loadState(file) ==
    [pools |-> [k \in { q.id : q \in file.pools } |->
                   CHOOSE q \in file.pools : q.id = k],
     lastScannedLedger |-> Max(0, file.lastScannedLedger)]

-----------------------------------------------------------------------------
(* Hydration Coordinator: hydrateFromEvents, server.js:183-327 *)

EmptyMap == [x \in {} |-> 0]

NoFetch == [pass |-> 0, result |-> "none", min |-> 0, max |-> 0]

\* A pass is the async body started at server.js:185.
\*   pc        "unborn" | "tip" (await getLatestLedger) |
\*             "fetch" (await getEvents) | "done" (promise settled)
\*   settled   state of the promise the body returned
\*   fetches   number of getEvents calls made so far
\*   errorLogged  the pass ran console.error (server.js:234 or :321)
\*   owesResync   history: a resync call joined the pass that ran before
NewPass(fromLedger, owes) ==
    [pc |-> "tip", fromLedger |-> fromLedger, latest |-> 0, start |-> 0,
     paginationToken |-> 0, processed |-> 0, fetches |-> 0,
     errorLogged |-> FALSE, settled |-> "pending", owesResync |-> owes]

UnbornPass == [NewPass(Absent, FALSE) EXCEPT !.pc = "unborn"]

Running(p) == passes[p].pc \in {"tip", "fetch"}

\* server.js:191  clampPos
clampPosUnclamped(x) == x
clampPos(x) == Max(1, x)

Truthy(x) == x # 0 /\ x # Absent

\* server.js:192-194  start resolution
ResolveStart(fromLedger, cursor, latest) ==
    IF fromLedger = 0 THEN 1
    ELSE clampPos(IF Truthy(fromLedger) THEN fromLedger
                  ELSE IF Truthy(cursor) THEN cursor
                  ELSE latest - DEFAULT_WINDOW)

\* server.js:184  if (hydratingPromise)
GateNeverHeld == FALSE
GateHeld == hydratingPromise # 0

\* server.js:184/326  the promise hydrateFromEvents hands to its caller
\* (0 stands for a value that is not a pending promise)
ReturnedNothing(p) == 0
ReturnedPromise(p) == p

\* server.js:323  hydratingPromise = null
GateKept(p) == p
ReleaseGate(p) == 0

\* server.js:314  } while (paginationToken)
LoopAgain(token) == token # 0

\* The promise of the async body never rejects: every throw is caught at
\* server.js:320 and the fetch failures at server.js:210
SettleOutcome(errorLogged) == "fulfilled"

\* server.js:316-326  after the loop: persist, release the gate, settle
\* (the locals of the body go out of scope)
Finish(pass) ==
    [UnbornPass EXCEPT !.pc = "done", !.errorLogged = pass.errorLogged,
                       !.settled = SettleOutcome(pass.errorLogged)]

\* the id of the next pass to be born
FreshPass == CHOOSE p \in PassIds :
                 /\ passes[p].pc = "unborn"
                 /\ \A q \in PassIds : q < p => passes[q].pc # "unborn"

CanCall == GateHeld \/ \E p \in PassIds : passes[p].pc = "unborn"

\* server.js:183-186,326  the synchronous part of a call hydrateFromEvents(arg):
\* the pass the caller ends up awaiting
CallTarget == IF GateHeld THEN hydratingPromise ELSE FreshPass

\* effect of the call on the gate, the passes and the resync history
CallEffect(arg, isResync) ==
    IF GateHeld
    THEN /\ UNCHANGED <<hydratingPromise, passes>>
         /\ resyncPending' = (resyncPending \/ isResync)
    ELSE /\ hydratingPromise' = FreshPass
         /\ passes' = [passes EXCEPT
                          ![FreshPass] = NewPass(arg, resyncPending)]
         /\ resyncPending' = FALSE

-----------------------------------------------------------------------------
(* Callers: the request handlers of server.js:348-440 *)

\*   kind     "pools" (GET /api/pools, with or without resync=1),
\*            "pool" (GET /api/pools/:id)
\*   await    the pass whose promise the handler is suspended on
\*   retried  the handler is in its second call (server.js:374)
\*   seen     the pass whose completion the handler observed last, 0 if none
\*   outcome  what it observed: "none" | "fulfilled" | "rejected"
IdleCaller ==
    [pc |-> "idle", kind |-> "pool", await |-> 0,
     retried |-> FALSE, seen |-> 0, outcome |-> "none"]

\* an awaited promise is settled: the continuation is queued as a microtask
Resumable(c) ==
    /\ callers[c].pc = "awaiting"
    /\ (callers[c].await = 0 \/ passes[callers[c].await].pc = "done")

\* Timers, requests and RPC responses are macrotasks: they run only when the
\* microtask queue is empty
NoMicrotask == \A c \in CallerIds : ~Resumable(c)

\* snapshots loadState may find at startup (server.js:133-145)
InitSnapshots ==
    { [lastScannedLedger |-> 0, pools |-> {}] }

\* After module load: loadState ran (server.js:166) and the startup routine
\* called hydrateFromEvents(0) (server.js:591), which suspended at the tip fetch
Init ==
    /\ \E s \in InitSnapshots :
          /\ pools = loadState(s).pools
          /\ lastScannedLedger = loadState(s).lastScannedLedger
          /\ snapshot = s
    /\ pendingRaised = EmptyMap
    /\ hydratingPromise = 1
    /\ passes = [p \in PassIds |-> IF p = 1 THEN NewPass(0, FALSE) ELSE UnbornPass]
    /\ callers = [c \in CallerIds |-> IdleCaller]
    /\ resyncPending = FALSE
    /\ lastFetch = NoFetch
    /\ orphanSum = [i \in PoolIds |-> 0]
    /\ ctrSum = [i \in PoolIds |-> 0]
    /\ lastCreated = 0
    /\ applied = 0
    /\ eventLog = <<>>

\* the most recent getEvents call: the pass that made it and its outcome
\* "none" | "page" | "positive" | "below" | "above" | "fatal", with the range
\* a failure reported
Fetched(p, result, min, max) ==
    [pass |-> p, result |-> result, min |-> min, max |-> max]

history == <<orphanSum, ctrSum, lastCreated, applied, eventLog>>
cache == <<pools, pendingRaised, snapshot>>

\* server.js:352-355  what a resync request does to the registry: only the
\* cursor is reset, the cache is kept
ResyncClearsCache(ps) == EmptyMap
ResyncCache(ps) == ps

\* server.js:348-358  GET /api/pools up to its first await
GetPools(c, resync) ==
    /\ NoMicrotask
    /\ callers[c].pc = "idle"
    /\ CanCall
    /\ lastScannedLedger' = IF resync THEN 0 ELSE lastScannedLedger
    /\ pools' = IF resync THEN ResyncCache(pools) ELSE pools
    /\ CallEffect(IF resync THEN 0 ELSE Absent, resync)
    /\ callers' = [callers EXCEPT ![c] =
                      [@ EXCEPT !.pc = "awaiting",
                                !.kind = "pools",
                                !.await = ReturnedPromise(CallTarget),
                                !.seen = 0, !.outcome = "none"]]
    /\ UNCHANGED <<pendingRaised, snapshot, lastFetch, history>>

\* server.js:424-428  GET /api/pools/:id up to its await
GetPool(c) ==
    /\ NoMicrotask
    /\ callers[c].pc = "idle"
    /\ CanCall
    /\ CallEffect(Absent, FALSE)
    /\ callers' = [callers EXCEPT ![c] =
                      [@ EXCEPT !.pc = "awaiting", !.kind = "pool",
                                !.await = ReturnedPromise(CallTarget),
                                !.seen = 0, !.outcome = "none"]]
    /\ UNCHANGED <<lastScannedLedger, cache, lastFetch, history>>

\* server.js:176-180  the 60 s poll: the promise is not awaited
TimerPoll ==
    /\ NoMicrotask
    /\ ~GateHeld
    /\ CanCall
    /\ CallEffect(Absent, FALSE)
    /\ UNCHANGED <<lastScannedLedger, callers, cache, lastFetch, history>>

\* server.js:360-417 / 429-435  a handler resumes after its await.
\* GET /api/pools with an empty list calls hydrateFromEvents(0) once more
\* (server.js:372-374, the query parameter _retried taken as not set); every
\* other path answers the request.
Resume(c) ==
    LET cl == callers[c]
        out == IF cl.await = 0 THEN "fulfilled" ELSE passes[cl.await].settled
        again == /\ out = "fulfilled"
                 /\ cl.kind = "pools"
                 /\ ~cl.retried
                 /\ pools = EmptyMap
    IN /\ Resumable(c)
       /\ IF again
          THEN /\ CanCall
               /\ CallEffect(0, FALSE)
               /\ callers' = [callers EXCEPT ![c] =
                                 [@ EXCEPT !.await = ReturnedPromise(CallTarget),
                                           !.retried = TRUE,
                                           !.seen = cl.await,
                                           !.outcome = out]]
          ELSE /\ callers' = [callers EXCEPT ![c] =
                                 [IdleCaller EXCEPT !.seen = cl.await,
                                                    !.outcome = out]]
               /\ UNCHANGED <<hydratingPromise, passes, resyncPending>>
       /\ UNCHANGED <<lastScannedLedger, cache, lastFetch, history>>

-----------------------------------------------------------------------------
(* The pass: server.js:185-325 *)

\* server.js:187-196  the tip arrives, the start is resolved and the first
\* getEvents call is issued
TipReturn(p, seq) ==
    /\ NoMicrotask
    /\ passes[p].pc = "tip"
    /\ LET st == ResolveStart(passes[p].fromLedger, lastScannedLedger, seq)
       IN passes' = [passes EXCEPT ![p] =
                        [@ EXCEPT !.pc = "fetch", !.latest = seq, !.start = st,
                                  !.fetches = 1]]
    /\ UNCHANGED <<lastScannedLedger, hydratingPromise, callers, cache,
                   resyncPending, lastFetch, history>>

\* server.js:187,320-324  getLatestLedger rejects: outer catch, finally
TipFail(p) ==
    /\ NoMicrotask
    /\ passes[p].pc = "tip"
    /\ passes' = [passes EXCEPT ![p] = Finish([@ EXCEPT !.errorLogged = TRUE])]
    /\ hydratingPromise' = ReleaseGate(hydratingPromise)
    /\ UNCHANGED <<lastScannedLedger, callers, cache, resyncPending, lastFetch,
                   history>>

\* server.js:313-326  the end of a loop iteration reached with `tok` as the
\* continuation token: either the next getEvents call is issued or the pass
\* persists (server.js:317), releases the gate and settles
LoopEnd(p, pass, tok, ps, pend, cursor) ==
    /\ pools' = ps
    /\ pendingRaised' = pend
    /\ lastScannedLedger' = cursor
    /\ IF LoopAgain(tok)
       THEN /\ passes' = [passes EXCEPT ![p] =
                             [pass EXCEPT !.paginationToken = tok,
                                          !.fetches = @ + 1]]
            /\ UNCHANGED <<hydratingPromise, snapshot>>
       ELSE /\ passes' = [passes EXCEPT ![p] =
                             Finish([pass EXCEPT !.paginationToken = tok])]
            /\ snapshot' = IF pass.processed > 0
                           THEN saveState(ps, cursor, snapshot) ELSE snapshot
            /\ hydratingPromise' = ReleaseGate(hydratingPromise)

\* server.js:320-324  an exception thrown while a page is applied: outer
\* catch, finally; what the loop had written stays, nothing is persisted
LoopThrew(p, pass, ps, pend, cursor) ==
    /\ pools' = ps
    /\ pendingRaised' = pend
    /\ lastScannedLedger' = cursor
    /\ passes' = [passes EXCEPT ![p] = Finish([pass EXCEPT !.errorLogged = TRUE])]
    /\ hydratingPromise' = ReleaseGate(hydratingPromise)
    /\ UNCHANGED snapshot

\* server.js:205-209,238-314  getEvents resolves with a page
FetchReturn(p, page, next) ==
    /\ NoMicrotask
    /\ passes[p].pc = "fetch"
    /\ passes[p].fetches >= MaxPages => next = 0
    /\ LET st == ApplyPage(Cache(pools, pendingRaised, lastScannedLedger,
                                 passes[p].processed), page)
           pass == [passes[p] EXCEPT !.processed = st.processed]
       IN IF st.threw
          THEN LoopThrew(p, pass, st.pools, st.pendingRaised,
                         st.lastScannedLedger)
          ELSE LoopEnd(p, pass, next, st.pools, st.pendingRaised,
                       st.lastScannedLedger)
    /\ lastFetch' = Fetched(p, "page", 0, 0)
    /\ UNCHANGED <<callers, resyncPending, history>>

\* server.js:213  /must be positive/i
MustBePositive(err) == err.kind = "positive"

\* server.js:220  /within the ledger range:\s*(\d+)\s*-\s*(\d+)/i
RangeReported(err) == err.kind = "range"

\* server.js:228  Math.max(min, max - DEFAULT_WINDOW)
AboveMaxStart(min, max) == Max(min, max - DEFAULT_WINDOW)

\* server.js:210-236  getEvents rejects.  `continue retryFetch` in the
\* do-while transfers control to the loop condition at server.js:314
FetchFailNoPersist(p, err) ==
    /\ NoMicrotask
    /\ passes[p].pc = "fetch"
    /\ LET pass == passes[p]
           log(result) == Fetched(p, result, err.min, err.max)
       IN IF MustBePositive(err)
          THEN /\ LoopEnd(p, [pass EXCEPT
                                 !.start = clampPos(pass.latest - DEFAULT_WINDOW)],
                          0, pools, pendingRaised, lastScannedLedger)
               /\ lastFetch' = log("positive")
          ELSE IF RangeReported(err) /\ pass.start < err.min
          THEN /\ LoopEnd(p, [pass EXCEPT !.start = err.min],
                          0, pools, pendingRaised, lastScannedLedger)
               /\ lastFetch' = log("below")
          ELSE IF RangeReported(err) /\ pass.start > err.max
          THEN /\ LoopEnd(p, [pass EXCEPT
                                 !.start = AboveMaxStart(err.min, err.max)],
                          0, pools, pendingRaised, lastScannedLedger)
               /\ lastFetch' = log("above")
          ELSE \* server.js:234-235  console.error; break
               /\ passes' = [passes EXCEPT ![p] =
                                Finish([pass EXCEPT !.errorLogged = TRUE])]
               /\ snapshot' = snapshot
               /\ hydratingPromise' = ReleaseGate(hydratingPromise)
               /\ lastFetch' = log("fatal")
               /\ UNCHANGED <<pools, pendingRaised, lastScannedLedger>>
    /\ UNCHANGED <<callers, resyncPending, history>>
FetchFail(p, err) ==
    /\ NoMicrotask
    /\ passes[p].pc = "fetch"
    /\ LET pass == passes[p]
           log(result) == Fetched(p, result, err.min, err.max)
       IN IF MustBePositive(err)
          THEN /\ LoopEnd(p, [pass EXCEPT
                                 !.start = clampPos(pass.latest - DEFAULT_WINDOW)],
                          0, pools, pendingRaised, lastScannedLedger)
               /\ lastFetch' = log("positive")
          ELSE IF RangeReported(err) /\ pass.start < err.min
          THEN /\ LoopEnd(p, [pass EXCEPT !.start = err.min],
                          0, pools, pendingRaised, lastScannedLedger)
               /\ lastFetch' = log("below")
          ELSE IF RangeReported(err) /\ pass.start > err.max
          THEN /\ LoopEnd(p, [pass EXCEPT
                                 !.start = AboveMaxStart(err.min, err.max)],
                          0, pools, pendingRaised, lastScannedLedger)
               /\ lastFetch' = log("above")
          ELSE \* server.js:234-235  console.error; break
               /\ passes' = [passes EXCEPT ![p] =
                                Finish([pass EXCEPT !.errorLogged = TRUE])]
               /\ snapshot' = IF pass.processed > 0
                              THEN saveState(pools, lastScannedLedger, snapshot)
                              ELSE snapshot
               /\ hydratingPromise' = ReleaseGate(hydratingPromise)
               /\ lastFetch' = log("fatal")
               /\ UNCHANGED <<pools, pendingRaised, lastScannedLedger>>
    /\ UNCHANGED <<callers, resyncPending, history>>

-----------------------------------------------------------------------------
(* Derived status: GET /api/pools, server.js:360-366 *)

\* server.js:360  now = Math.floor(Date.now()/1000): before and after the
\* deadline 9 the events carry
Nows == {5, 10}

\* server.js:364  now > Number(p.deadline)
ExpiredReversed(p, now) == now < p.deadline
Expired(p, now) == now > p.deadline

\* server.js:365  BigInt(p.raised) >= BigInt(p.goal)
FundedStrict(p) == p.raised > p.goal
Funded(p) == p.raised >= p.goal

\* server.js:363-365
StatusFundedFirst(p, now) ==
    IF p.finalized THEN "finalized"
    ELSE IF Funded(p) THEN "funded"
    ELSE IF Expired(p, now) THEN "expired"
    ELSE "active"
Status(p, now) ==
    IF p.finalized THEN "finalized"
    ELSE IF Expired(p, now) THEN "expired"
    ELSE IF Funded(p) THEN "funded"
    ELSE "active"

-----------------------------------------------------------------------------
(* Registration and periodic persistence *)

\* normalised records POST /api/pools/register may write
RegRecords ==
    { [ZeroPool(i) EXCEPT !.goal = 3, !.raised = 5, !.deadline = 9] : i \in PoolIds }

\* records as a client may post them: those above, one that carries none of
\* id, pool_id, poolId, and one whose id is the empty string
RegInputs ==
    RegRecords
    \cup { [ZeroPool(i) EXCEPT !.goal = 3, !.raised = 5, !.deadline = 9] :
               i \in {Absent, EmptyString} }

\* server.js:505,535  `!id` of the string String(pool.id ?? ...): true of the
\* empty string only ("undefined" is a non-empty string)
IdMissing(id) == id = EmptyString

\* server.js:511,538  Number(id) of the id string: the integer of a decimal
\* string, NaN of "undefined"
NumberOf(id) == IF id = Absent THEN NaN ELSE id

\* server.js:509-516  the normalised record
Normalized(rec) == [rec EXCEPT !.id = NumberOf(rec.id)]

\* server.js:500-520  POST /api/pools/register; the key is
\* String(normalized.id)
RegisterPoolGated(rec) ==
    /\ NoMicrotask
    /\ ~GateHeld
    /\ pools' = IF IdMissing(rec.id) THEN pools
                ELSE PoolSet(pools, Normalized(rec).id, Normalized(rec))
    /\ snapshot' = IF IdMissing(rec.id) THEN snapshot
                   ELSE saveState(pools', lastScannedLedger, snapshot)
    /\ UNCHANGED <<lastScannedLedger, pendingRaised, hydratingPromise, passes,
                   callers, resyncPending, lastFetch, history>>
RegisterPool(rec) ==
    /\ NoMicrotask
    /\ pools' = IF IdMissing(rec.id) THEN pools
                ELSE PoolSet(pools, Normalized(rec).id, Normalized(rec))
    /\ snapshot' = IF IdMissing(rec.id) THEN snapshot
                   ELSE saveState(pools', lastScannedLedger, snapshot)
    /\ UNCHANGED <<lastScannedLedger, pendingRaised, hydratingPromise, passes,
                   callers, resyncPending, lastFetch, history>>

\* server.js:528-549  POST /api/pools/register-batch: every record of the
\* array that passes `if (!id) continue` is written under its id string, then
\* saveState once (recs: records of distinct ids)
RegisterBatch(recs) ==
    /\ NoMicrotask
    /\ LET kept == { rec \in recs : ~IdMissing(rec.id) }
       IN pools' = [k \in DOMAIN pools \cup { rec.id : rec \in kept } |->
                       IF \E rec \in kept : rec.id = k
                       THEN Normalized(CHOOSE rec \in kept : rec.id = k)
                       ELSE pools[k]]
    /\ snapshot' = saveState(pools', lastScannedLedger, snapshot)
    /\ UNCHANGED <<lastScannedLedger, pendingRaised, hydratingPromise, passes,
                   callers, resyncPending, lastFetch, history>>

\* server.js:173  saveState every 30 s (also server.js:600 on SIGINT)
SaveTimer ==
    /\ NoMicrotask
    /\ snapshot' = saveState(pools, lastScannedLedger, snapshot)
    /\ UNCHANGED <<pools, lastScannedLedger, pendingRaised, hydratingPromise,
                   passes, callers, resyncPending, lastFetch, history>>

Next ==
    \/ \E c \in CallerIds, resync \in BOOLEAN : GetPools(c, resync)
    \/ \E c \in CallerIds : GetPool(c)
    \/ TimerPoll
    \/ \E c \in CallerIds : Resume(c)
    \/ \E p \in PassIds, seq \in Tips : TipReturn(p, seq)
    \/ \E p \in PassIds : TipFail(p)
    \/ \E p \in PassIds, page \in Pages, next \in {0, 1} : FetchReturn(p, page, next)
    \/ \E p \in PassIds, err \in Errors : FetchFail(p, err)
    \/ \E rec \in RegRecords : rec.id \in SourceIds /\ RegisterPool(rec)
    \/ \E recs \in SUBSET { rec \in RegRecords : rec.id \in SourceIds } :
          RegisterBatch(recs)
    \/ SaveTimer

Spec == Init /\ [][Next]_vars

-----------------------------------------------------------------------------
(* The reconciler alone: events applied one at a time *)

\* server.js:238-311  one loop iteration, with the history of what was applied
ApplyOne(e) ==
    /\ applied < MaxApplied
    /\ LET st == ApplyEvent(Cache(pools, pendingRaised, lastScannedLedger, 0), e)
           delta == extractAmount(e.native)
           isCtr == e.pid # 0 /\ IsContribution(e.tag)
           isNew == e.pid # 0 /\ IsCreation(e.tag)
       IN /\ pools' = st.pools
          /\ pendingRaised' = st.pendingRaised
          /\ lastScannedLedger' = st.lastScannedLedger
          /\ ctrSum' = IF isCtr THEN [ctrSum EXCEPT ![e.pid] = @ + delta]
                       ELSE ctrSum
          /\ orphanSum' = IF isCtr /\ e.pid \notin DOMAIN pools
                          THEN [orphanSum EXCEPT ![e.pid] = @ + delta]
                          ELSE IF isNew THEN [orphanSum EXCEPT ![e.pid] = 0]
                          ELSE orphanSum
    /\ lastCreated' = IF e.pid # 0 /\ IsCreation(e.tag) /\ ~Has(e.native, "raised")
                      THEN e.pid ELSE 0
    /\ applied' = applied + 1
    /\ UNCHANGED <<hydratingPromise, passes, callers, snapshot, resyncPending,
                   lastFetch, eventLog>>

\* a registration between two events (server.js:500-520)
RegisterBetweenClearsOrphan(rec) ==
    /\ applied < MaxApplied
    /\ pools' = PoolSet(pools, rec.id, rec)
    /\ pendingRaised' = MapDelete(pendingRaised, rec.id)
    /\ snapshot' = saveState(pools', lastScannedLedger, snapshot)
    /\ lastCreated' = 0
    /\ UNCHANGED <<lastScannedLedger, hydratingPromise, passes,
                   callers, resyncPending, lastFetch, orphanSum, ctrSum,
                   applied, eventLog>>
RegisterBetween(rec) ==
    /\ applied < MaxApplied
    /\ pools' = PoolSet(pools, rec.id, rec)
    /\ snapshot' = saveState(pools', lastScannedLedger, snapshot)
    /\ lastCreated' = 0
    /\ UNCHANGED <<lastScannedLedger, pendingRaised, hydratingPromise, passes,
                   callers, resyncPending, lastFetch, orphanSum, ctrSum,
                   applied, eventLog>>

NextReconcile ==
    \/ \E e \in Events : ApplyOne(e)
    \/ \E rec \in RegRecords : RegisterBetween(rec)

SpecReconcile == Init /\ [][NextReconcile]_vars

-----------------------------------------------------------------------------
(* The cache over the life of the process: events applied one at a time,     *)
(* registrations, and a graceful shutdown followed by a new start            *)

\* A creation event of a pool with goal 1000, its payload a struct of the
\* fields goal (i128) and deadline (u64); one whose struct names the goal
\* `target` (read at server.js:255); contributions of 600 and 400; a finalize;
\* a contribution from which extractPoolId resolves no id; a contribution
\* whose payload holds no amount (extractAmount gives 0)
Created1000 ==
    Ev("pc", 1, [NoNative EXCEPT !.has = {"goal", "deadline"}, !.goal = 1000,
                                 !.deadline = 9,
                                 !.big = {"goal", "deadline"}], 50)

Contributed(pid, amount) ==
    Ev("ctr", pid, [NoNative EXCEPT !.has = {"amount"}, !.amount = amount,
                                    !.big = {"amount"}], 200500)

LifecycleEvents ==
    { Created1000,
      Ev("pc", 2, [NoNative EXCEPT !.has = {"target", "deadline"},
                                   !.target = 1000, !.deadline = 9,
                                   !.big = {"target", "deadline"}], 50),
      Contributed(1, 600),
      Contributed(1, 400),
      Ev("fn", 1, NoNative, 200500),
      Ev("ctr", 0, [NoNative EXCEPT !.has = {"amount"}, !.amount = 600,
                                    !.big = {"amount"}], 200500),
      Ev("ctr", 1, NoNative, 200500) }

\* server.js:599-603 then server.js:35-42,166  SIGINT: saveState and exit; the
\* next process starts with empty maps and runs loadState
ShutdownRestart ==
    /\ snapshot' = saveState(pools, lastScannedLedger, snapshot)
    /\ pools' = loadState(snapshot').pools
    /\ lastScannedLedger' = loadState(snapshot').lastScannedLedger
    /\ pendingRaised' = EmptyMap
    /\ orphanSum' = [i \in PoolIds |-> 0]
    /\ lastCreated' = 0
    /\ UNCHANGED <<hydratingPromise, passes, callers, resyncPending, lastFetch,
                   ctrSum, applied, eventLog>>

NextLifecycle ==
    \/ \E e \in LifecycleEvents : ApplyOne(e)
    \/ \E rec \in RegRecords : RegisterBetween(rec)
    \/ ShutdownRestart

SpecLifecycle == Init /\ [][NextLifecycle]_vars

-----------------------------------------------------------------------------
(* The dispatch of the event loop: one event for every branch, applied one   *)
(* at a time, and registrations between them                                 *)

\* The creation of pool 1; a contribution of 600 to it; a contribution of a
\* negative amount (a correction) for pool 2; the finalize event of pool 1;
\* events of a tag that is none of creation, contribution, finalize, their
\* payload a struct with the field raised (u32)
DispatchEvents ==
    { Created1000,
      Contributed(1, 600),
      Contributed(2, -1),
      Ev("fn", 1, NoNative, 200500),
      Ev("zz", 1, [NoNative EXCEPT !.has = {"raised"}, !.raised = 5], 50),
      Ev("zz", 2, [NoNative EXCEPT !.has = {"raised"}, !.raised = 5], 50) }

NextDispatch ==
    \/ \E e \in DispatchEvents : ApplyOne(e)
    \/ \E rec \in RegRecords : RegisterBetween(rec)

SpecDispatch == Init /\ [][NextDispatch]_vars

-----------------------------------------------------------------------------
(* Passes over the event log of the contract: the log grows, a pass runs     *)
(* from its resolved start to the end of the log, the process restarts       *)

\* A contribution of 400 for pool 1 at ledger 50; the finalize event of pool 1
\* at ledger 60; the creation of pool 1 at ledger 50, or at ledger 200500; a
\* contribution of 600 at ledger 200500; an event of unrecognised tag for
\* pool 2 with a void payload
CreatedLate == [Created1000 EXCEPT !.ledger = 200500]

LogEvents ==
    { Ev("ctr", 1, [NoNative EXCEPT !.has = {"amount"}, !.amount = 400,
                                    !.big = {"amount"}], 50),
      Ev("fn", 1, NoNative, 60),
      Created1000,
      CreatedLate,
      Contributed(1, 600),
      Ev("zz", 2, NoNative, 50) }

\* the contract emits an event: the log is append-only and in ledger order
LogGrows(e) ==
    /\ Len(eventLog) < MaxLog
    /\ eventLog # <<>> => e.ledger >= eventLog[Len(eventLog)].ledger
    /\ eventLog' = Append(eventLog, e)
    /\ UNCHANGED <<pools, lastScannedLedger, pendingRaised, hydratingPromise,
                   passes, callers, snapshot, resyncPending, lastFetch,
                   orphanSum, ctrSum, lastCreated, applied>>

\* server.js:205-209  getEvents of a source that returns every event at a
\* ledger position >= startLedger
Serve(lg, start) == SelectSeq(lg, LAMBDA e : e.ledger >= start)

\* server.js:187  the tip when the passes run: beyond every ledger of the log
LogTip == 200600

\* server.js:187-314  a pass that meets no fetch failure: the start is
\* resolved and the events served from it are applied in order
PassOver(st, lg, fromLedger) ==
    ApplyPage([st EXCEPT !.processed = 0, !.threw = FALSE],
              Serve(lg, ResolveStart(fromLedger, st.lastScannedLedger, LogTip)))

\* server.js:183-327  hydrateFromEvents(fromLedger) from the call to the
\* settled promise, with the persist step of server.js:317 (the histories of
\* single events are not kept by this step)
HydratePass(fromLedger) ==
    /\ applied < MaxApplied
    /\ LET st == PassOver(Cache(pools, pendingRaised, lastScannedLedger, 0),
                          eventLog, fromLedger)
       IN /\ pools' = st.pools
          /\ pendingRaised' = st.pendingRaised
          /\ lastScannedLedger' = st.lastScannedLedger
          /\ snapshot' = IF ~st.threw /\ st.processed > 0
                         THEN saveState(st.pools, st.lastScannedLedger, snapshot)
                         ELSE snapshot
    /\ applied' = applied + 1
    /\ lastCreated' = 0
    /\ UNCHANGED <<hydratingPromise, passes, callers, resyncPending, lastFetch,
                   orphanSum, ctrSum, eventLog>>

\* server.js:352-358  GET /api/pools?resync=1: the cursor is reset, the cache
\* is kept, and the pass runs from the earliest position
HydrateResync ==
    /\ applied < MaxApplied
    /\ LET st == PassOver(Cache(ResyncCache(pools), pendingRaised, 0, 0),
                          eventLog, 0)
       IN /\ pools' = st.pools
          /\ pendingRaised' = st.pendingRaised
          /\ lastScannedLedger' = st.lastScannedLedger
          /\ snapshot' = IF ~st.threw /\ st.processed > 0
                         THEN saveState(st.pools, st.lastScannedLedger, snapshot)
                         ELSE snapshot
    /\ applied' = applied + 1
    /\ lastCreated' = 0
    /\ UNCHANGED <<hydratingPromise, passes, callers, resyncPending, lastFetch,
                   orphanSum, ctrSum, eventLog>>

NextLog ==
    \/ \E e \in LogEvents : LogGrows(e)
    \/ \E fromLedger \in {0, Absent} : HydratePass(fromLedger)
    \/ HydrateResync
    \/ ShutdownRestart

SpecLog == Init /\ [][NextLog]_vars

-----------------------------------------------------------------------------
(* The registration endpoints with records as clients may post them, between *)
(* the events the source serves and restarts of the process                  *)

NextRegister ==
    \/ \E rec \in RegInputs : RegisterPool(rec)
    \/ \E recs \in SUBSET RegInputs : RegisterBatch(recs)
    \/ \E e \in SourceEvents : ApplyOne(e)
    \/ ShutdownRestart

SpecRegister == Init /\ [][NextRegister]_vars

-----------------------------------------------------------------------------
(* Properties *)

\* C1: at most one hydration pass is executing at any time; a call made
\* while a pass is in flight never starts a second pipeline.
C1_SinglePass == Cardinality({p \in PassIds : Running(p)}) <= 1

\* two handlers called while the same pass was in flight and wait for it
C1_Witness ==
    \E c1, c2 \in CallerIds :
        /\ c1 # c2
        /\ callers[c1].pc = "awaiting" /\ callers[c2].pc = "awaiting"
        /\ callers[c1].await = callers[c2].await
        /\ callers[c1].await # 0
        /\ Running(callers[c1].await)

\* C2: concurrent calls share one pass and one outcome: callers waiting at the
\* same time wait for the same running pass, and what a caller observed is the
\* settled outcome of a finished pass, never an earlier or a different result.
C2_SharedOutcome ==
    /\ \A c \in CallerIds :
          callers[c].outcome # "none" =>
              /\ callers[c].seen # 0
              /\ passes[callers[c].seen].pc = "done"
              /\ callers[c].outcome = passes[callers[c].seen].settled
    /\ \A c1, c2 \in CallerIds :
          ( /\ callers[c1].pc = "awaiting" /\ callers[c2].pc = "awaiting"
            /\ callers[c1].await # 0 /\ callers[c2].await # 0
            /\ Running(callers[c1].await) /\ Running(callers[c2].await) )
          => callers[c1].await = callers[c2].await

\* two handlers observed the completion of the same pass
C2_Witness ==
    \E c1, c2 \in CallerIds :
        /\ c1 # c2
        /\ callers[c1].seen # 0
        /\ callers[c1].seen = callers[c2].seen
        /\ callers[c1].outcome = "fulfilled"
        /\ callers[c2].outcome = "fulfilled"

\* C3 as stated: immediately after a creation event (without raised value) for
\* an id is applied, raised equals the sum of the deltas of all contribution
\* events for that id applied before it.
C3_AllPriorContributions ==
    lastCreated # 0 => pools[lastCreated].raised = ctrSum[lastCreated]

\* C3 amended: immediately after a creation event (without raised value) for an
\* id is applied, raised equals the sum of the deltas of the contribution events
\* for that id that were applied while the id had no registry entry and that no
\* earlier creation event has merged.
C3_OrphanConvergence ==
    [][lastCreated' # 0 =>
          pools'[lastCreated'].raised = orphanSum[lastCreated']]_vars

\* a creation event merged a non-zero orphan balance
C3_Witness == lastCreated # 0 /\ pools[lastCreated].raised # 0

\* C4: the scan cursor never decreases while a pass is in flight, whatever
\* other requests run while the pass is suspended.
C4_CursorMonotoneInPass ==
    [][hydratingPromise # 0 => lastScannedLedger' >= lastScannedLedger]_vars

\* C5: after a range failure with the start below min, the pass makes a next
\* getEvents call and that call uses start = min.
C5_RetryFromMin ==
    lastFetch.result = "below" =>
        /\ passes[lastFetch.pass].pc = "fetch"
        /\ passes[lastFetch.pass].start = lastFetch.min

\* C6: after a range failure with the start above max, the pass makes a next
\* getEvents call and that call uses start = max(min, max - window).
C6_RetryFromWindow ==
    lastFetch.result = "above" =>
        /\ passes[lastFetch.pass].pc = "fetch"
        /\ passes[lastFetch.pass].start =
               Max(lastFetch.min, lastFetch.max - DEFAULT_WINDOW)

\* C7: a classified fetch failure is recovered inside the same pass: the pass
\* does not end on it but fetches again, and settles as a success.
C7_RecoveredInPass ==
    \A p \in PassIds :
        (lastFetch.pass = p /\ lastFetch.result \in {"positive", "below", "above"})
        => (passes[p].pc # "done" /\ passes[p].settled # "rejected")

\* C8: a pass that ended on an unclassified failure (of the tip fetch or of a
\* page fetch) reports a fatal failure to its callers: its promise rejects.
C8_FatalReported ==
    \A p \in PassIds :
        (passes[p].pc = "done" /\ passes[p].errorLogged)
        => passes[p].settled = "rejected"

CalledAfterObserving(c) ==
    \/ callers[c].pc = "idle" /\ callers[c].seen # 0
       /\ callers'[c].pc = "awaiting"
    \/ ~callers[c].retried /\ callers'[c].retried

\* C9 as stated: a hydrate call issued by a caller after it has observed a
\* completion always starts a new pass.
C9_AlwaysNewPass ==
    [][\A c \in CallerIds :
          CalledAfterObserving(c) => passes[callers'[c].await].pc = "unborn"]_vars

\* C9 amended: the gate is only ever held by a pass that is still running, is
\* free of a finished pass by the time any waiter observes its outcome, and a
\* call issued after observing a completion never joins the finished pass (it
\* starts a new pass or joins a newer one that is in flight).
C9_GateReleased ==
    /\ hydratingPromise # 0 => Running(hydratingPromise)
    /\ \A c \in CallerIds :
          callers[c].seen # 0 =>
              /\ hydratingPromise # callers[c].seen
              /\ callers[c].pc = "awaiting" => callers[c].await # callers[c].seen

\* a handler observed a completion, called again and waits for a later pass
C9_Witness ==
    \E c \in CallerIds :
        /\ callers[c].retried
        /\ callers[c].pc = "awaiting"
        /\ callers[c].seen # 0
        /\ callers[c].await # 0
        /\ Running(callers[c].await)

\* C10: a full-resync request that joined a running pass is honoured by the
\* next pass, which starts from the earliest position, 1.
C10_ResyncHonored ==
    \A p \in PassIds :
        (passes[p].pc = "fetch" /\ passes[p].owesResync) => passes[p].start = 1

\* the fields of a pool the snapshot contract speaks of
Visible(p) ==
    [id |-> p.id, goal |-> p.goal, raised |-> p.raised,
     deadline |-> p.deadline, finalized |-> p.finalized]

\* C11: saveState followed by loadState in a fresh process reproduces the same
\* pool ids, the same goal, raised, deadline and finalized of each pool, and
\* the same cursor.
C11_RoundTrip ==
    LET st == loadState(saveState(pools, lastScannedLedger, snapshot))
    IN /\ DOMAIN st.pools = DOMAIN pools
       /\ \A k \in DOMAIN pools \cap DOMAIN st.pools :
              Visible(st.pools[k]) = Visible(pools[k])
       /\ st.lastScannedLedger = lastScannedLedger

\* explicit positive start positions a caller may pass
ExplicitStarts == {7, 300}

\* C12: the start of a pass is the explicit positive position as given, 1 for
\* the full-resync sentinel 0, and for an absent start the cursor when it is
\* non-zero, else tip - window clamped to at least 1.
C12_StartResolved ==
    [][ /\ \A p \in PassIds :
              (passes[p].pc = "tip" /\ passes'[p].pc = "fetch") =>
                  LET arg == passes[p].fromLedger
                      tip == passes'[p].latest
                  IN passes'[p].start =
                         IF arg = 0 THEN 1
                         ELSE IF arg > 0 THEN arg
                         ELSE IF lastScannedLedger # 0 THEN lastScannedLedger
                         ELSE IF tip - DEFAULT_WINDOW >= 1
                              THEN tip - DEFAULT_WINDOW
                         ELSE 1
        /\ \A x \in ExplicitStarts, tip \in Tips :
              ResolveStart(x, lastScannedLedger, tip) = x ]_vars

\* passes resolved an absent start from a zero cursor (a window before the
\* tip) and from a non-zero cursor
C12_Witness ==
    \E p \in PassIds :
        /\ passes[p].pc = "fetch"
        /\ passes[p].fromLedger = Absent
        /\ passes[p].fetches = 1
        /\ lastScannedLedger = 0
        /\ passes[p].start = 50000

\* the cache as the event loop finds it
Current == Cache(pools, pendingRaised, lastScannedLedger, 0)

\* C13 as stated: an event whose payload fails to decode (native is null) or
\* from which no pool id is resolved is skipped: it changes neither the
\* registry nor the orphan buffer.
C13_UndecodableSkipped ==
    \A e \in Events :
        (e.pid = 0 \/ e.native = NoNative) =>
            /\ ApplyEvent(Current, e).pools = pools
            /\ ApplyEvent(Current, e).pendingRaised = pendingRaised

\* C13 amended: an event from which no pool id is resolved is skipped without
\* aborting the pass: it changes neither the registry nor the orphan buffer,
\* throws nothing, and the events that follow it in the page are applied
\* exactly as they are without it.
C13_NoIdSkipped ==
    \A e \in Events \cup LifecycleEvents :
        e.pid = 0 =>
            /\ ApplyEvent(Current, e).pools = pools
            /\ ApplyEvent(Current, e).pendingRaised = pendingRaised
            /\ ~ApplyEvent(Current, e).threw
            /\ \A g \in LifecycleEvents :
                   ApplyPage(Current, <<e, g>>) = ApplyPage(Current, <<g>>)

\* an event went through the loop and left no trace in the registry, the
\* orphan buffer or the cursor
C13_Witness ==
    /\ applied > 0
    /\ pools = EmptyMap
    /\ pendingRaised = EmptyMap
    /\ lastScannedLedger = 0

\* C14: a pool created with goal 1000 and a future deadline, then given
\* contributions of 600 and 400 and no finalize event, has status funded; a
\* pool that is neither finalized nor expired is funded exactly when
\* raised >= goal and active otherwise.
C14_FundedAtGoal ==
    /\ LET st == ApplyPage(Current, <<Created1000, Contributed(1, 600),
                                       Contributed(1, 400)>>)
       IN /\ ~st.threw
          /\ Status(st.pools[1], 5) = "funded"
    /\ \A k \in DOMAIN pools, now \in Nows :
          (~pools[k].finalized /\ ~(now > pools[k].deadline)) =>
              /\ Status(pools[k], now) = "funded"
                     <=> pools[k].raised >= pools[k].goal
              /\ Status(pools[k], now) = "active"
                     <=> pools[k].raised < pools[k].goal

\* the three events were applied and the pool stands at its goal
C14_Witness ==
    /\ applied = 3
    /\ ctrSum[1] = 1000
    /\ 1 \in DOMAIN pools
    /\ pools[1].goal = 1000 /\ pools[1].raised = 1000
    /\ ~pools[1].finalized
    /\ Status(pools[1], 5) = "funded"

\* C15: a pool past its deadline with raised < goal and not finalized has
\* status expired.
C15_ExpiredPastDeadline ==
    \A k \in DOMAIN pools, now \in Nows :
        ( /\ now > pools[k].deadline
          /\ pools[k].raised < pools[k].goal
          /\ ~pools[k].finalized )
        => Status(pools[k], now) = "expired"

\* a pool short of its goal, not finalized, read after its deadline
C15_Witness ==
    \E k \in DOMAIN pools :
        /\ pools[k].deadline = 9
        /\ pools[k].raised = 600 /\ pools[k].goal = 1000
        /\ ~pools[k].finalized
        /\ Status(pools[k], 10) = "expired"

\* the creation event the remote source serves
SourceCreation ==
    CHOOSE e \in SourceEvents : IsCreation(e.tag) /\ e.native = NoNative

\* C16: registration is not subject to the single-flight gate: it can run
\* while a pass is in flight; right after a registration the entry of that id
\* is the registered record; and when a page of the in-flight pass brings a
\* creation event for a registered id, the entry afterwards is the one the
\* event wrote.
C16_RegistrationUngated ==
    [][ /\ (GateHeld /\ NoMicrotask) =>
              /\ \A rec \in RegRecords : ENABLED RegisterPool(rec)
              /\ ENABLED RegisterBatch(RegRecords)
        /\ \A rec \in RegRecords :
              RegisterPool(rec) => pools'[rec.id] = rec
        /\ \A recs \in SUBSET RegRecords :
              RegisterBatch(recs) => \A rec \in recs : pools'[rec.id] = rec
        /\ \A p \in PassIds, next \in {0, 1} :
              FetchReturn(p, <<SourceCreation>>, next) =>
                  Visible(pools'[SourceCreation.pid]) =
                      [Visible(ZeroPool(SourceCreation.pid)) EXCEPT
                          !.raised =
                              IF SourceCreation.pid \in DOMAIN pendingRaised
                              THEN pendingRaised[SourceCreation.pid]
                              ELSE 0] ]_vars

\* the pass started at boot is still in flight and the registry holds a
\* record as it was registered
C16_Witness ==
    /\ hydratingPromise = 1
    /\ passes[1].pc = "fetch"
    /\ \E rec \in RegRecords :
          rec.id \in DOMAIN pools /\ pools[rec.id] = rec

\* the snapshot a successful saveState leaves at the end of this step
WrittenNow ==
    [lastScannedLedger |-> lastScannedLedger',
     pools |-> { pools'[k] : k \in DOMAIN pools' }]

\* a pass that applied n events ends in this step
PersistedIffApplied(n) ==
    /\ n > 0 => snapshot' = WrittenNow
    /\ n = 0 => snapshot' = snapshot

TagSamples == { Ev(t, i, NoNative, 50) : t \in Tags, i \in PoolIds }

\* C18: pools are never deleted: an id in the registry stays in it through
\* passes, registrations, resync requests and snapshot writes, and through an
\* event of any tag.
C18_NeverDeleted ==
    [][ /\ DOMAIN pools \subseteq DOMAIN pools'
        /\ \A e \in TagSamples :
              DOMAIN pools \subseteq DOMAIN ApplyEvent(Current, e).pools ]_vars

\* a resync request reset the cursor of a registry that had been saved at
\* a later position, and the registry still holds its pools
C18_Witness ==
    /\ lastScannedLedger = 0
    /\ snapshot.lastScannedLedger > 0
    /\ pools # EmptyMap
    /\ \E c \in CallerIds :
          callers[c].pc = "awaiting" /\ callers[c].kind = "pools"

\* creation events with a resolved id
Creations == { e \in Events \cup LifecycleEvents : IsCreation(e.tag) /\ e.pid # 0 }

\* what a creation payload says: goal (or its alias target), raised, deadline
GoalOf(n) == IF "goal" \in n.has THEN n.goal
             ELSE IF "target" \in n.has THEN n.target ELSE 0
RaisedOf(n) == IF "raised" \in n.has THEN n.raised ELSE 0
DeadlineOf(n) == IF "deadline" \in n.has THEN n.deadline ELSE 0
FinalizedOf(n) == "finalized" \in n.has /\ n.finalized

\* C19: a creation event for an id that already has an entry overwrites it:
\* afterwards goal, deadline and finalized are those of the new event (goal and
\* deadline 0, finalized false when missing), whatever the entry held before.
C19_CreationOverwrites ==
    \A e \in Creations :
        e.pid \in DOMAIN pools =>
            LET q == ApplyEvent(Current, e).pools[e.pid]
            IN /\ q.id = e.pid
               /\ q.goal = GoalOf(e.native)
               /\ q.deadline = DeadlineOf(e.native)
               /\ q.finalized = FinalizedOf(e.native)
               /\ e.pid \notin DOMAIN pendingRaised => q.raised = RaisedOf(e.native)

\* pool 1 was created, received 600 and was then created again: the second
\* creation left raised at 0 (nothing was registered or restored meanwhile)
C19_Witness ==
    /\ applied = 3
    /\ lastCreated = 1
    /\ ctrSum[1] = 600
    /\ pools[1].raised = 0 /\ pools[1].goal = 1000
    /\ lastScannedLedger = 200500
    /\ snapshot.lastScannedLedger = 0 /\ snapshot.pools = {}

\* C20 as stated: after a creation event for an id the orphan buffer holds no
\* entry for that id, whatever value the entry had.
C20_EntryConsumed ==
    \A e \in Creations :
        e.pid \notin DOMAIN ApplyEvent(Current, e).pendingRaised

\* C20 amended: a creation event for an id adds a non-zero orphan entry of that
\* id into raised and removes it, once: afterwards the buffer holds no non-zero
\* entry for the id, the entries of other ids are untouched, and a second
\* creation adds nothing again.  An entry of value zero stays where it is.
C20_NonZeroEntryConsumed ==
    \A e \in Creations :
        LET st == ApplyEvent(Current, e)
            buff == IF e.pid \in DOMAIN pendingRaised
                    THEN pendingRaised[e.pid] ELSE 0
        IN /\ e.pid \in DOMAIN st.pendingRaised =>
                  /\ st.pendingRaised[e.pid] = 0
                  /\ e.pid \in DOMAIN pendingRaised
           /\ st.pools[e.pid].raised = RaisedOf(e.native) + buff
           /\ \A j \in DOMAIN pendingRaised \ {e.pid} :
                  j \in DOMAIN st.pendingRaised
                  /\ st.pendingRaised[j] = pendingRaised[j]
           /\ ~st.threw =>
                  ApplyEvent(st, e).pools[e.pid].raised = RaisedOf(e.native)

\* a creation event merged a non-zero orphan entry and removed it
C20_Witness ==
    /\ lastCreated # 0
    /\ orphanSum[lastCreated] = 0
    /\ ctrSum[lastCreated] # 0
    /\ pools[lastCreated].raised = ctrSum[lastCreated]
    /\ lastCreated \notin DOMAIN pendingRaised

\* contribution events with a resolved id
Contributions ==
    { e \in Events \cup DispatchEvents : IsContribution(e.tag) /\ e.pid # 0 }

\* C21: a contribution event for an id with a registry entry adds the
\* extracted delta (negative ones too) to raised of that pool and leaves the
\* orphan buffer as it is; for an id without entry it adds the delta to the
\* buffer entry of that id (starting from 0 when there is none) and leaves the
\* registry as it is, creating no pool.
C21_ContributionApplied ==
    \A e \in Contributions :
        LET st == ApplyEvent(Current, e)
            delta == extractAmount(e.native)
        IN IF e.pid \in DOMAIN pools
           THEN /\ DOMAIN st.pools = DOMAIN pools
                /\ st.pools[e.pid] = [pools[e.pid] EXCEPT !.raised = @ + delta]
                /\ \A k \in DOMAIN pools \ {e.pid} : st.pools[k] = pools[k]
                /\ st.pendingRaised = pendingRaised
           ELSE /\ st.pools = pools
                /\ DOMAIN st.pendingRaised = DOMAIN pendingRaised \cup {e.pid}
                /\ st.pendingRaised[e.pid] =
                       (IF e.pid \in DOMAIN pendingRaised
                        THEN pendingRaised[e.pid] ELSE 0) + delta
                /\ \A k \in DOMAIN pendingRaised \ {e.pid} :
                       st.pendingRaised[k] = pendingRaised[k]

\* pool 1 exists and received 600; pool 2 does not exist and a correction of
\* -1 for it sits in the orphan buffer
C21_Witness ==
    /\ applied = 3
    /\ 1 \in DOMAIN pools /\ pools[1].raised = 600 /\ ctrSum[1] = 600
    /\ 2 \notin DOMAIN pools
    /\ 2 \in DOMAIN pendingRaised /\ pendingRaised[2] = -1

\* finalize events with a resolved id
Finalizes ==
    { e \in Events \cup DispatchEvents : IsFinalize(e.tag) /\ e.pid # 0 }

\* C22: a finalize event for an id with a registry entry sets finalized and
\* changes no other field of that pool, no other pool and not the orphan
\* buffer; for an id without entry it is dropped, registry and orphan buffer
\* staying as they are, so that a creation event that follows it for that id
\* yields finalized = false unless its own payload says true.
C22_FinalizeApplied ==
    \A e \in Finalizes :
        LET st == ApplyEvent(Current, e)
        IN /\ st.pendingRaised = pendingRaised
           /\ IF e.pid \in DOMAIN pools
              THEN /\ DOMAIN st.pools = DOMAIN pools
                   /\ st.pools[e.pid] = [pools[e.pid] EXCEPT !.finalized = TRUE]
                   /\ \A k \in DOMAIN pools \ {e.pid} : st.pools[k] = pools[k]
              ELSE /\ st.pools = pools
                   /\ \A c \in Creations :
                          c.pid = e.pid =>
                              ApplyPage(Current, <<e, c>>).pools[e.pid].finalized
                                  = FinalizedOf(c.native)

\* the finalize event of pool 1 was applied while the pool was absent, then
\* its creation event: the pool is not finalized (nothing was registered or
\* restored meanwhile)
C22_Witness ==
    /\ applied = 2
    /\ lastCreated = 1
    /\ lastScannedLedger = 200500
    /\ pools[1].goal = 1000 /\ ~pools[1].finalized
    /\ pendingRaised = EmptyMap
    /\ \A i \in PoolIds : ctrSum[i] = 0
    /\ snapshot.lastScannedLedger = 0 /\ snapshot.pools = {}

\* events with a resolved id whose tag is none of creation, contribution,
\* finalize
Fallbacks ==
    { e \in Events \cup DispatchEvents :
          /\ e.pid # 0
          /\ ~IsCreation(e.tag) /\ ~IsContribution(e.tag) /\ ~IsFinalize(e.tag) }

\* C23: an event with an unrecognised tag and a resolved id upserts a pool:
\* starting from the entry of the id, or from goal 0, raised 0, deadline 0,
\* finalized false when there is none, exactly those of goal, raised, deadline
\* and finalized the payload carries are overwritten; other pools and the
\* orphan buffer are neither read nor changed.
C23_FallbackUpserts ==
    \A e \in Fallbacks :
        LET st == ApplyEvent(Current, e)
            n == e.native
            had == e.pid \in DOMAIN pools
        IN /\ DOMAIN st.pools = DOMAIN pools \cup {e.pid}
           /\ Visible(st.pools[e.pid]) =
                  [id |-> e.pid,
                   goal |-> IF "goal" \in n.has THEN n.goal
                            ELSE IF had THEN pools[e.pid].goal ELSE 0,
                   raised |-> IF "raised" \in n.has THEN n.raised
                              ELSE IF had THEN pools[e.pid].raised ELSE 0,
                   deadline |-> IF "deadline" \in n.has THEN n.deadline
                                ELSE IF had THEN pools[e.pid].deadline ELSE 0,
                   finalized |-> IF "finalized" \in n.has THEN n.finalized
                                 ELSE IF had THEN pools[e.pid].finalized
                                 ELSE FALSE]
           /\ \A k \in DOMAIN pools \ {e.pid} : st.pools[k] = pools[k]
           /\ st.pendingRaised = pendingRaised
           /\ \A pend \in {EmptyMap, [i \in {e.pid} |-> 7]} :
                  ApplyEvent(Cache(pools, pend, lastScannedLedger, 0), e).pools
                      = st.pools

\* pool 1 was created with goal 1000 and an event of unknown tag then set its
\* raised to 5, keeping goal and deadline; the same event for the absent id 2
\* made a pool of goal 0 and deadline 0
C23_Witness ==
    /\ applied = 3
    /\ 1 \in DOMAIN pools /\ 2 \in DOMAIN pools
    /\ Visible(pools[1]) = [id |-> 1, goal |-> 1000, raised |-> 5,
                             deadline |-> 9, finalized |-> FALSE]
    /\ Visible(pools[2]) = [id |-> 2, goal |-> 0, raised |-> 5,
                             deadline |-> 0, finalized |-> FALSE]

C25_RetryFromWindowBeforeTip ==
    lastFetch.result = "positive" =>
        LET pass == passes[lastFetch.pass]
        IN /\ pass.pc = "fetch"
           /\ pass.start = Max(1, pass.latest - DEFAULT_WINDOW)
           /\ pass.paginationToken = 0

\* a getEvents call of pass p fails and the failure is taken as fatal
\* (server.js:234-235)
FatalFetchFail(p) ==
    /\ \E err \in Errors : FetchFail(p, err)
    /\ lastFetch'.result = "fatal"

\* C26 as stated: a fatal page-fetch failure takes the pass to idle with no
\* further fetch and without the persisting step: the pass writes no snapshot,
\* also when earlier pages of it applied events.
C26_NoSnapshotOnFatal ==
    [][\A p \in PassIds :
          FatalFetchFail(p) =>
              /\ passes'[p].pc = "done"
              /\ snapshot' = snapshot]_vars

\* C26 amended: a fatal page-fetch failure ends the paging loop: the pass
\* fetches no further page, changes nothing in the cache, goes through the
\* persisting step exactly when earlier pages of it applied at least one event
\* (the write holds registry and cursor as they are then; a write that fails
\* leaves the file as it was), releases the gate and is idle.
C26_FatalEndsPass ==
    [][\A p \in PassIds :
          FatalFetchFail(p) =>
              /\ passes'[p].pc = "done"
              /\ hydratingPromise' = 0
              /\ <<pools, pendingRaised, lastScannedLedger>>'
                     = <<pools, pendingRaised, lastScannedLedger>>
              /\ passes[p].processed = 0 => snapshot' = snapshot
              /\ passes[p].processed > 0 =>
                     /\ snapshot' \in {snapshot, WrittenNow}
                     /\ (\A k \in DOMAIN pools : Serializable(pools[k]))
                            => snapshot' = WrittenNow ]_vars

\* the pass started at boot ended on a fatal fetch failure after a page had
\* brought the cursor to 200500, and the file holds the cache as it is
C26_Witness ==
    /\ lastFetch.result = "fatal" /\ lastFetch.pass = 1
    /\ passes[1].pc = "done" /\ passes[1].errorLogged
    /\ hydratingPromise = 0
    /\ lastScannedLedger = 200500
    /\ pendingRaised # EmptyMap
    /\ snapshot = [lastScannedLedger |-> 200500, pools |-> {}]

\* C27: events are not deduplicated: the same contribution event (same id,
\* delta and ledger position) applied twice in a row adds twice its delta to
\* raised of an existing pool, and twice its delta to the orphan buffer entry
\* while the pool is absent; both count as processed.
C27_ReplayDoubleCounts ==
    \A e \in Contributions :
        LET st == ApplyPage(Current, <<e, e>>)
            delta == extractAmount(e.native)
        IN /\ st.processed = 2
           /\ IF e.pid \in DOMAIN pools
              THEN st.pools[e.pid].raised = pools[e.pid].raised + 2 * delta
              ELSE st.pendingRaised[e.pid] =
                       (IF e.pid \in DOMAIN pendingRaised
                        THEN pendingRaised[e.pid] ELSE 0) + 2 * delta

\* pool 1 was created and the contribution of 600 was applied twice
C27_Witness ==
    /\ applied = 3
    /\ 1 \in DOMAIN pools
    /\ pools[1].goal = 1000 /\ pools[1].raised = 1200
    /\ ctrSum[1] = 1200

\* C28: the adjustment loop is unbounded: every getEvents failure that
\* reports a range excluding the start of the call is answered by an
\* adjustment and one more getEvents call, so that against a source that
\* always fails so the pass never becomes idle.
C28_KeepsRetrying ==
    [][\A p \in PassIds, err \in Errors :
          ( /\ FetchFail(p, err)
            /\ RangeReported(err)
            /\ (passes[p].start < err.min \/ passes[p].start > err.max) )
          => /\ passes'[p].pc = "fetch"
             /\ passes'[p].fetches = passes[p].fetches + 1
             /\ hydratingPromise' = p ]_vars

\* C29: a pass loops pages until the continuation token is exhausted: every
\* page that arrives is applied whole, its events in order; after a page with
\* a token the pass issues the next getEvents call and keeps the gate; after
\* the page without token it fetches no more, releases the gate and is idle.
C29_PagesUntilTokenExhausted ==
    [][\A p \in PassIds, page \in Pages, next \in {0, 1} :
          FetchReturn(p, page, next) =>
              /\ passes'[p].processed \in {0, passes[p].processed
                     + Cardinality({ i \in DOMAIN page : page[i].pid # 0 })}
              /\ IF next # 0
                 THEN /\ passes'[p].pc = "fetch"
                      /\ passes'[p].fetches = passes[p].fetches + 1
                      /\ passes'[p].processed = passes[p].processed
                             + Cardinality({ i \in DOMAIN page : page[i].pid # 0 })
                      /\ hydratingPromise' = p
                 ELSE /\ passes'[p].pc = "done"
                      /\ ~passes'[p].errorLogged
                      /\ hydratingPromise' = 0 ]_vars

\* C30: a registration whose record carries none of id, pool_id, poolId is
\* rejected (single) or skipped (batch) and leaves the registry as it is;
\* every key a registration adds to the registry is a positive integer id.
C30_IdRequired ==
    [][\A recs \in SUBSET RegInputs :
          ( \/ \E rec \in recs : recs = {rec} /\ RegisterPool(rec)
            \/ RegisterBatch(recs) )
          => /\ (\A rec \in recs : rec.id = Absent) => pools' = pools
             /\ \A k \in DOMAIN pools' \ DOMAIN pools : k \in PoolIds ]_vars

\* C31 as stated: in every reachable state no id is both in the registry and
\* in the orphan buffer.
C31_Disjoint == DOMAIN pools \cap DOMAIN pendingRaised = {}

\* C31 amended: while the process runs, an orphan buffer entry is created or
\* changed only by a step that finds no pool of that id and makes none, and is
\* removed only by a creation event of that id that finds it non-zero; a pool
\* that enters the registry any other way (registration, an event of
\* unrecognised tag) leaves the entry where it is.
C31_EntriesOnlyForAbsentIds ==
    [][\A k \in PoolIds :
          LET had == k \in DOMAIN pendingRaised
              has == k \in DOMAIN pendingRaised'
          IN /\ (has /\ (~had \/ pendingRaised'[k] # pendingRaised[k]))
                    => (k \notin DOMAIN pools /\ k \notin DOMAIN pools')
             /\ (had /\ ~has)
                    => /\ pendingRaised[k] # 0
                       /\ \E e \in Creations : e.pid = k /\ ApplyOne(e)
                       /\ k \in DOMAIN pools' ]_vars

\* a correction of -1 was buffered for the absent pool 2, then an event of
\* unrecognised tag made pool 2: the id is in the registry and in the buffer
C31_Witness ==
    /\ 2 \in DOMAIN pools
    /\ 2 \in DOMAIN pendingRaised /\ pendingRaised[2] = -1
    /\ Visible(pools[2]) = [id |-> 2, goal |-> 0, raised |-> 5,
                             deadline |-> 0, finalized |-> FALSE]

\* the fields of every pool that the read endpoints serve
VisiblePools(ps) == [k \in DOMAIN ps |-> Visible(ps[k])]

\* C32: incremental hydration is idempotent when nothing new happened: after
\* a pass with an absent start has run over the event log, a second pass with
\* an absent start over the same log leaves goal, raised, deadline and
\* finalized of every pool, the orphan buffer and the cursor as the first pass
\* left them.
C32_IncrementalIdempotent ==
    LET first == PassOver(Current, eventLog, Absent)
        second == PassOver(first, eventLog, Absent)
    IN ~first.threw =>
          /\ VisiblePools(second.pools) = VisiblePools(first.pools)
          /\ second.pendingRaised = first.pendingRaised
          /\ second.lastScannedLedger = first.lastScannedLedger

\* C33: a full resync is a rebuild: the first full pass over the event log
\* from an empty registry and an empty orphan buffer, followed by a resync
\* (cursor reset, registry kept, pass from the earliest position) over the
\* same log, leaves goal, raised, deadline and finalized of every pool as the
\* first pass produced them.
C33_ResyncRebuilds ==
    LET first == PassOver(Cache(EmptyMap, EmptyMap, 0, 0), eventLog, 0)
        again == PassOver(Cache(ResyncCache(first.pools), first.pendingRaised,
                                0, 0),
                          eventLog, 0)
    IN ~first.threw => VisiblePools(again.pools) = VisiblePools(first.pools)

\* the state of a process that applied the first n events of the log from an
\* empty registry, wrote its snapshot, and was started again
Restarted(n) ==
    LET before == PassOver(Cache(EmptyMap, EmptyMap, 0, 0),
                           SubSeq(eventLog, 1, n), 0)
        file == saveState(before.pools, before.lastScannedLedger,
                          [lastScannedLedger |-> 0, pools |-> {}])
    IN Cache(loadState(file).pools, EmptyMap,
             loadState(file).lastScannedLedger, 0)

\* C34: restart equivalence: a process that applied a prefix of the event
\* log, wrote a snapshot, restarted and then ran a pass from the restored
\* cursor over the log ends with the same goal, raised, deadline and finalized
\* of every pool as a process that applied the whole log in one pass without
\* restarting.
C34_RestartEquivalence ==
    \A n \in 1..Len(eventLog) :
        LET whole == PassOver(Cache(EmptyMap, EmptyMap, 0, 0), eventLog, 0)
            resumed == PassOver(Restarted(n), eventLog, Absent)
        IN ~whole.threw =>
              VisiblePools(resumed.pools) = VisiblePools(whole.pools)

\* the current times a read may see: any positive time, before and after the
\* deadline the events carry
Times == Nows \cup {1}

\* the precedence finalized > expired > funded > active, for one pool
Precedence(p, now) ==
    LET s == Status(p, now)
    IN /\ s \in {"finalized", "expired", "funded", "active"}
       /\ p.finalized => s = "finalized"
       /\ (~p.finalized /\ now > p.deadline) => s = "expired"
       /\ (~p.finalized /\ ~(now > p.deadline) /\ p.raised >= p.goal)
              => s = "funded"
       /\ (~p.finalized /\ ~(now > p.deadline) /\ p.raised < p.goal)
              => s = "active"

\* the creation events whose payload carries no deadline
NoDeadlineCreations == { e \in Creations : "deadline" \notin e.native.has }

\* C35 as stated: the status has the precedence finalized > expired > funded >
\* active for every pool, and a pool created by an event with no deadline is
\* 'expired' at any positive current time.
C35_NoDeadlineIsExpired ==
    /\ \A k \in DOMAIN pools, now \in Times : Precedence(pools[k], now)
    /\ \A e \in NoDeadlineCreations, now \in Times :
           LET st == ApplyEvent(Current, e)
           IN ~st.threw => Status(st.pools[e.pid], now) = "expired"

\* C35 amended: the status of every pool is exactly one of the four, by the
\* precedence finalized > expired > funded > active; a pool created by an event
\* with no deadline has deadline 0 and is 'expired' at any positive current
\* time unless the event marks it finalized, in which case it is 'finalized'.
C35_StatusPrecedence ==
    /\ \A k \in DOMAIN pools, now \in Times : Precedence(pools[k], now)
    /\ \A e \in NoDeadlineCreations, now \in Times :
           LET st == ApplyEvent(Current, e)
               p == st.pools[e.pid]
           IN ~st.threw =>
                 /\ p.deadline = 0
                 /\ Precedence(p, now)
                 /\ Status(p, now) = IF FinalizedOf(e.native) THEN "finalized"
                                     ELSE "expired"

\* pool 1 is finalized and pool 2, made by an event of unrecognised tag with
\* raised 5, goal 0 and deadline 0, is past its deadline with its goal met
C35_Witness ==
    /\ 1 \in DOMAIN pools /\ pools[1].finalized
    /\ Status(pools[1], 5) = "finalized"
    /\ 2 \in DOMAIN pools /\ ~pools[2].finalized
    /\ pools[2].deadline = 0 /\ pools[2].goal = 0 /\ pools[2].raised = 5
    /\ Status(pools[2], 1) = "expired"

\* C36: the events of one fetched page are applied, with their cursor
\* updates, in one step that no reader or registration interleaves: the step
\* in which a page arrives runs the loop to the end of the page, so that every
\* event of the page that carries an id has been applied and counted, and any
\* other step that changes the registry is a registration.
C36_PagesAtomic ==
    [][/\ \A p \in PassIds, page \in Pages, next \in {0, 1} :
            FetchReturn(p, page, next) =>
                LET st == ApplyPage(Current, page)
                IN /\ ~st.threw
                   /\ pools' = st.pools
                   /\ pendingRaised' = st.pendingRaised
                   /\ lastScannedLedger' = st.lastScannedLedger
                   /\ passes'[p].pc = "fetch" =>
                          passes'[p].processed = passes[p].processed
                            + Cardinality({ i \in DOMAIN page : page[i].pid # 0 })
       /\ (pools' # pools \/ pendingRaised' # pendingRaised) =>
              \/ \E p \in PassIds, page \in Pages, next \in {0, 1} :
                     FetchReturn(p, page, next)
              \/ \E rec \in RegRecords : RegisterPool(rec)
              \/ \E recs \in SUBSET RegRecords : RegisterBatch(recs) ]_vars

====
